---- MODULE Spec2Model ----
(***************************************************************************)
(* Verification model of the batched extraction pipeline of                *)
(* moseq2-extract:                                                         *)
(*   - process_extract_batches and its helpers                             *)
(*     (src/moseq2_extract/helpers/extract.py),                            *)
(*   - the batch loop of the `extract` command (src/moseq2/cli.py).        *)
(* Collaborators whose code is not part of the sources at hand             *)
(* (gen_batch_sequence, load_movie_data, extract_chunk,                    *)
(* write_frames_preview) are modelled from their documented contract.      *)
(***************************************************************************)
EXTENDS Integers, Sequences, FiniteSets, TLC

(***************************************************************************)
(* Bounds of the model.                                                    *)
(***************************************************************************)
MaxFrames == 6
MaxChunk == 3
MaxPix == 2
MaxSessions == 3
MaxDim == 2

(***************************************************************************)
(* Python values.                                                          *)
(***************************************************************************)
\* Python's None (a tracking state or a pipe that is not there)
None == <<>>
\* a key that a dict does not hold
Absent == <<"absent">>

Min(a, b) == IF a < b THEN a ELSE b
Max(a, b) == IF a < b THEN b ELSE a

\* range(lo, hi) as the sequence of its elements
Range(lo, hi) == [x \in 1..(IF hi > lo THEN hi - lo ELSE 0) |-> lo + x - 1]

\* s[off:] for off >= 0
SliceFrom(s, off) == IF off >= Len(s) THEN <<>> ELSE SubSeq(s, off + 1, Len(s))

\* the set of elements of a sequence
Elems(s) == {s[x] : x \in DOMAIN s}

\* a rows x cols frame filled with v
Matrix(rows, cols, v) == [r \in 1..rows |-> [c \in 1..cols |-> v]]

(***************************************************************************)
(* Batch Scheduler: gen_batch_sequence(nframes, chunk_size, overlap).      *)
(* range k = [k*(C-O), k*(C-O)+C) clipped to [0, N); the final range is    *)
(* the first whose upper bound is N.  A video with no frame has no batch.  *)
(***************************************************************************)
RECURSIVE GenBatchesFrom(_, _, _, _)
GenBatchesFrom(k, N, C, O) ==
    LET lo == k * (C - O)
        hi == Min(lo + C, N)
    IN  IF hi = N THEN << Range(lo, hi) >>
        ELSE << Range(lo, hi) >> \o GenBatchesFrom(k + 1, N, C, O)

gen_batch_sequence(N, C, O) == IF N = 0 THEN <<>> ELSE GenBatchesFrom(0, N, C, O)

(***************************************************************************)
(* Collaborators of the driver.                                            *)
(***************************************************************************)
\* identifies position j (1-based) of batch i
Tag(i, j) == i * (MaxChunk + 2) + j

\* load_movie_data: one frame per index of frame_range; frame f holds f + 1
load_movie_data(fr, shape) == [j \in 1..Len(fr) |-> Matrix(shape[1], shape[2], fr[j] + 1)]

\* extract_chunk: one result element per frame of the chunk, each array's
\* element identified by (batch, position); the tracker's parameter trace
\* has one (mean, cov) entry per frame.
extract_chunk(i, chunk, crop_size, scalars) ==
    LET n == Len(chunk) IN
    [ chunk        |-> chunk,
      depth_frames |-> [j \in 1..n |-> Matrix(crop_size[1], crop_size[2], Tag(i, j))],
      mask_frames  |-> [j \in 1..n |-> Matrix(crop_size[1], crop_size[2], (2 * Tag(i, j)) % 5)],
      scalars      |-> [s \in scalars |-> [j \in 1..n |-> 100 + Tag(i, j)]],
      flips        |-> [j \in 1..n |-> Tag(i, j) % 2],
      parameters   |-> [ mean |-> [j \in 1..n |-> <<"mean", i, j>>],
                         cov  |-> [j \in 1..n |-> <<"cov", i, j>>] ] ]

\* the value of `results` before the first extraction call
NoResults == [ chunk |-> <<>>, depth_frames |-> <<>>, mask_frames |-> <<>>,
               scalars |-> <<>>, flips |-> <<>>,
               parameters |-> [mean |-> <<>>, cov |-> <<>>] ]

(***************************************************************************)
(* set_tracking_model_parameters                                           *)
(***************************************************************************)
\* mask_frames[depth_frames < min_height] = tracking_model_ll_clip
ThresholdMaskLe(mask, depth, min_height, clip) ==
    [f \in DOMAIN mask |-> [r \in DOMAIN mask[f] |-> [c \in DOMAIN mask[f][r] |->
        IF depth[f][r][c] <= min_height THEN clip ELSE mask[f][r][c]]]]

ThresholdMask(mask, depth, min_height, clip) ==
    [f \in DOMAIN mask |-> [r \in DOMAIN mask[f] |-> [c \in DOMAIN mask[f][r] |->
        IF depth[f][r][c] < min_height THEN clip ELSE mask[f][r][c]]]]

\* mask_frames[mask_frames < tracking_model_ll_clip] = tracking_model_ll_clip
FloorMaskAdd(mask, clip) ==
    [f \in DOMAIN mask |-> [r \in DOMAIN mask[f] |-> [c \in DOMAIN mask[f][r] |->
        IF mask[f][r][c] < clip THEN mask[f][r][c] + clip ELSE mask[f][r][c]]]]

FloorMaskAbove(mask, clip) ==
    [f \in DOMAIN mask |-> [r \in DOMAIN mask[f] |-> [c \in DOMAIN mask[f][r] |->
        IF mask[f][r][c] > clip THEN clip ELSE mask[f][r][c]]]]

FloorMask(mask, clip) ==
    [f \in DOMAIN mask |-> [r \in DOMAIN mask[f] |-> [c \in DOMAIN mask[f][r] |->
        IF mask[f][r][c] < clip THEN clip ELSE mask[f][r][c]]]]

\* the two clipping statements, in the order of the code
ClipMask(mask, depth, min_height, clip) ==
    FloorMask(ThresholdMask(mask, depth, min_height, clip), clip)

\* the 1-based position of trace[-(chunk_overlap + 1)] in a trace of n entries
TraceIndexLast(n, chunk_overlap) == n

TraceIndexOffByOne(n, chunk_overlap) == n - chunk_overlap + 1

TraceIndex(n, chunk_overlap) == n - chunk_overlap

\* returns (results, tracking_init_mean, tracking_init_cov), or raises
\* IndexError when the trace has fewer than chunk_overlap + 1 entries
set_tracking_model_parameters(res, min_height, clip, chunk_overlap) ==
    LET clipped == [res EXCEPT !.mask_frames = ClipMask(res.mask_frames, res.depth_frames, min_height, clip)]
        n  == Len(res.parameters.mean)
        ix == TraceIndex(n, chunk_overlap)
    IN  IF ix < 1 \/ ix > n
        THEN [ raised |-> "IndexError", results |-> clipped, mean |-> None, cov |-> None ]
        ELSE [ raised |-> "none", results |-> clipped,
               mean |-> res.parameters.mean[ix], cov |-> res.parameters.cov[ix] ]

(***************************************************************************)
(* make_output_movie                                                       *)
(***************************************************************************)
\* a value stored in the output array, whose dtype is uint16
UInt16(v) == v % 65536

\* one composited frame per frame of results['chunk'][offset:]
make_output_movie_whole(res, crop_size, offset) ==
    [j \in 1..Len(res.chunk) |->
        LET rows == Len(res.chunk[j])
            cols == Len(res.chunk[j][1])
        IN  [r \in 1..(rows + crop_size[1]) |-> [c \in 1..(cols + crop_size[2]) |->
                IF r > crop_size[1] /\ c > crop_size[2]
                THEN UInt16(res.chunk[j][r - crop_size[1]][c - crop_size[2]])
                ELSE IF r <= crop_size[1] /\ c <= crop_size[2]
                THEN UInt16(res.depth_frames[j][r][c])
                ELSE 0]]]

make_output_movie_narrow(res, crop_size, offset) ==
    LET chunk == SliceFrom(res.chunk, offset)
        depth == SliceFrom(res.depth_frames, offset)
    IN  [j \in 1..Len(chunk) |->
            LET rows == Len(chunk[j])
                cols == Len(chunk[j][1])
            IN  [r \in 1..(rows + crop_size[1]) |-> [c \in 1..(cols + crop_size[2]) |->
                    IF r > crop_size[1] /\ c > crop_size[2]
                    THEN UInt16(chunk[j][r - crop_size[1]][c - crop_size[2]])
                    ELSE IF r < crop_size[1] /\ c < crop_size[2]
                    THEN UInt16(depth[j][r][c])
                    ELSE 0]]]

make_output_movie(res, crop_size, offset) ==
    LET chunk == SliceFrom(res.chunk, offset)
        depth == SliceFrom(res.depth_frames, offset)
    IN  [j \in 1..Len(chunk) |->
            LET rows == Len(chunk[j])
                cols == Len(chunk[j][1])
            IN  [r \in 1..(rows + crop_size[1]) |-> [c \in 1..(cols + crop_size[2]) |->
                    IF r > crop_size[1] /\ c > crop_size[2]
                    THEN UInt16(chunk[j][r - crop_size[1]][c - crop_size[2]])
                    ELSE IF r <= crop_size[1] /\ c <= crop_size[2]
                    THEN UInt16(depth[j][r][c])
                    ELSE 0]]]

(***************************************************************************)
(* write_extracted_chunk_to_h5                                             *)
(***************************************************************************)
\* dataset[frame_range] = values
H5Assign(ds, fr, vals) ==
    [x \in DOMAIN ds |->
        IF \E j \in DOMAIN fr : fr[j] = x
        THEN vals[CHOOSE j \in DOMAIN fr : fr[j] = x]
        ELSE ds[x]]

\* how often each index of a dataset has been assigned
CountAssign(cnt, fr) ==
    [x \in DOMAIN cnt |-> cnt[x] + Cardinality({j \in DOMAIN fr : fr[j] = x})]

\* an h5 file whose datasets are pre-created (zero-filled) for n frames
NewH5(n, crop_size, scalars) ==
    [ scalars     |-> [s \in scalars |-> [x \in 0..(n - 1) |-> 0]],
      frames      |-> [x \in 0..(n - 1) |-> Matrix(crop_size[1], crop_size[2], 0)],
      frames_mask |-> [x \in 0..(n - 1) |-> Matrix(crop_size[1], crop_size[2], 0)],
      flips       |-> [x \in 0..(n - 1) |-> 0] ]

NewH5Writes(n, scalars) ==
    [d \in scalars \cup {"frames", "frames_mask", "flips"} |-> [x \in 0..(n - 1) |-> 0]]

write_extracted_chunk_to_h5_head(h5, res, flip_classifier, scalars, fr, offset) ==
    [ scalars     |-> [s \in scalars |-> H5Assign(h5.scalars[s], fr, SubSeq(res.scalars[s], 1, Len(fr)))],
      frames      |-> H5Assign(h5.frames, fr, SubSeq(res.depth_frames, 1, Len(fr))),
      frames_mask |-> H5Assign(h5.frames_mask, fr, SubSeq(res.mask_frames, 1, Len(fr))),
      flips       |-> IF flip_classifier
                      THEN H5Assign(h5.flips, fr, SubSeq(res.flips, 1, Len(fr)))
                      ELSE h5.flips ]

write_extracted_chunk_to_h5(h5, res, flip_classifier, scalars, fr, offset) ==
    [ scalars     |-> [s \in scalars |-> H5Assign(h5.scalars[s], fr, SliceFrom(res.scalars[s], offset))],
      frames      |-> H5Assign(h5.frames, fr, SliceFrom(res.depth_frames, offset)),
      frames_mask |-> H5Assign(h5.frames_mask, fr, SliceFrom(res.mask_frames, offset)),
      flips       |-> IF flip_classifier
                      THEN H5Assign(h5.flips, fr, SliceFrom(res.flips, offset))
                      ELSE h5.flips ]

\* the write counts after write_extracted_chunk_to_h5
CountChunkWrites(cnt, flip_classifier, scalars, fr) ==
    [d \in DOMAIN cnt |->
        IF d = "flips" /\ ~flip_classifier THEN cnt[d] ELSE CountAssign(cnt[d], fr)]

(***************************************************************************)
(* The encoder process behind the video pipe, and write_frames_preview.    *)
(***************************************************************************)
\* a run given no pipe: no encoder process yet
NoEncoder == [ state |-> "Unopened", spawns |-> 0, closes |-> 0, feeds |-> <<>>,
               late_feeds |-> 0, returncode |-> None ]

\* a run given an open pipe: its encoder was started by the caller
CallerEncoder == [NoEncoder EXCEPT !.state = "Open"]

CallerPipe == <<"pipe", 0>>

\* write_frames_preview(..., pipe=pipe, close_pipe=False): starts the encoder
\* when pipe is None, pushes the frames, returns the pipe
write_frames_preview(enc, pipe, movie, fr) ==
    LET spawn  == pipe = None
        handle == IF spawn THEN <<"pipe", enc.spawns + 1>> ELSE pipe
    IN  [ pipe    |-> handle,
          encoder |-> [enc EXCEPT
                !.state = IF spawn THEN "Open" ELSE @,
                !.spawns = IF spawn THEN @ + 1 ELSE @,
                !.late_feeds = IF ~spawn /\ enc.state = "Closed" THEN @ + 1 ELSE @,
                !.feeds = Append(@, [pipe |-> handle, frame_range |-> fr, nframes |-> Len(movie)])] ]

\* video_pipe.communicate(): end of input, wait for the encoder to exit
communicate(enc, code) ==
    [enc EXCEPT !.state = "Closed", !.closes = @ + 1, !.returncode = code]

(***************************************************************************)
(* State.                                                                  *)
(***************************************************************************)
VARIABLES
    nframes,            \* frames of the video
    chunk_size,         \* frames per batch
    config_data,        \* the configuration dict
    scalars,            \* names of the scalar datasets
    frame_batches,      \* the schedule
    h5_file,            \* the open h5 file, or None
    video_pipe,         \* the pipe to the encoder, or None
    tracking_init_mean, \* the tracking state handed from batch to batch
    tracking_init_cov,
    i,                  \* index of the current batch
    frame_range,        \* frame indices of the current batch
    raw_chunk,          \* frames loaded for the current batch
    offset,             \* leading frames of the batch that are not committed
    results,            \* result of the latest extraction call
    output_movie,       \* composited frames of the current batch
    pc,                 \* position in the running function
    exception,          \* the exception that ended the run, or "none"
    encoder,            \* the encoder process behind the pipe
    extract_calls,      \* the tracking state each extraction call received
    committed,          \* frame_range[offset:] of each batch, in order
    h5_writes,          \* how often each index of each dataset was written
    once,               \* mask_frames after one clipping
    twice,              \* mask_frames after a second clipping
    given,              \* the arguments as the caller passed them
    to_extract,         \* run_local_extract: the sessions to extract
    fails,              \* positions of to_extract whose extraction raises
    attempted,          \* the sessions extract_command was called for, in order
    printed,            \* what run_local_extract printed
    steps               \* the steps of the batches that returned, in order

vars == << nframes, chunk_size, config_data, scalars, frame_batches, h5_file,
           video_pipe, tracking_init_mean, tracking_init_cov, i, frame_range,
           raw_chunk, offset, results, output_movie, pc, exception, encoder,
           extract_calls, committed, h5_writes, once, twice, given, to_extract, fails, attempted, printed, steps >>

\* shape of a video frame (bground_im.shape) in the runs of the driver
FrameShape == <<1, 1>>

ScalarNames == {"centroid_x", "angle"}

\* the configuration seeds the tracking state with these when it holds them
ConfigMean == <<"mean", -1, 0>>
ConfigCov == <<"cov", -1, 0>>

(***************************************************************************)
(* process_extract_batches                                                 *)
(***************************************************************************)
\* the state at the call: every configuration, schedule, store and pipe
Init ==
    /\ nframes \in 0..MaxFrames
    /\ chunk_size \in 1..MaxChunk
    /\ \E O \in 0..(chunk_size - 1), track \in BOOLEAN, flip \in BOOLEAN, seeded \in BOOLEAN :
          /\ config_data = [ chunk_overlap |-> O,
                             use_tracking_model |-> track,
                             flip_classifier |-> flip,
                             min_height |-> 3,
                             tracking_model_ll_clip |-> 2,
                             crop_size |-> <<1, 1>>,
                             tracking_init_mean |-> IF seeded THEN ConfigMean ELSE Absent,
                             tracking_init_cov |-> IF seeded THEN ConfigCov ELSE Absent ]
          /\ frame_batches = gen_batch_sequence(nframes, chunk_size, O)
    /\ scalars = ScalarNames
    /\ \E store \in BOOLEAN :
          /\ h5_file = IF store THEN NewH5(nframes, <<1, 1>>, ScalarNames) ELSE None
          /\ h5_writes = NewH5Writes(nframes, ScalarNames)
    /\ \E open \in BOOLEAN :
          /\ video_pipe = IF open THEN CallerPipe ELSE None
          /\ encoder = IF open THEN CallerEncoder ELSE NoEncoder
    /\ given = [ config_data |-> config_data, video_pipe |-> video_pipe, results |-> NoResults ]
    /\ tracking_init_mean = None
    /\ tracking_init_cov = None
    /\ i = 0
    /\ frame_range = <<>>
    /\ raw_chunk = <<>>
    /\ offset = 0
    /\ results = NoResults
    /\ output_movie = <<>>
    /\ pc = "pop"
    /\ exception = "none"
    /\ extract_calls = <<>>
    /\ committed = <<>>
    /\ once = <<>>
    /\ twice = <<>>
    /\ to_extract = <<>>
    /\ fails = {}
    /\ attempted = <<>>
    /\ printed = <<>>
    /\ steps = <<>>

\* config_data.pop(key, None)
Pop(v) == IF v = Absent THEN None ELSE v

\* an exception leaves the function: nothing after the raising statement runs
RaiseSwallowed(name) ==
    /\ pc' = "offset"
    /\ exception' = name

Raise(name) ==
    /\ pc' = "raised"
    /\ exception' = name

\* lines 131-132
PopTrackingInit ==
    /\ pc = "pop"
    /\ tracking_init_mean' = Pop(config_data.tracking_init_mean)
    /\ tracking_init_cov' = Pop(config_data.tracking_init_cov)
    /\ config_data' = [config_data EXCEPT !.tracking_init_mean = Absent,
                                          !.tracking_init_cov = Absent]
    /\ pc' = "for"
    /\ UNCHANGED << nframes, chunk_size, scalars, frame_batches, h5_file, video_pipe,
                    i, frame_range, raw_chunk, offset, results, output_movie,
                    exception, encoder, extract_calls, committed, h5_writes, once, twice, given, to_extract, fails, attempted, printed, steps >>

\* line 134: the next batch, or the end of the loop
ForNext ==
    /\ pc = "for"
    /\ IF i < Len(frame_batches)
       THEN /\ frame_range' = frame_batches[i + 1]
            /\ pc' = "load"
       ELSE /\ frame_range' = frame_range
            /\ pc' = "final"
    /\ UNCHANGED << nframes, chunk_size, config_data, scalars, frame_batches, h5_file,
                    video_pipe, tracking_init_mean, tracking_init_cov, i, raw_chunk,
                    offset, results, output_movie, exception, encoder, extract_calls,
                    committed, h5_writes, once, twice, given, to_extract, fails, attempted, printed, steps >>

\* lines 135-138
LoadChunk ==
    /\ pc = "load"
    /\ \/ /\ raw_chunk' = load_movie_data(frame_range, FrameShape)
          /\ pc' = "offset"
          /\ steps' = Append(steps, <<"load", i>>)
          /\ UNCHANGED exception
       \/ /\ Raise("LoaderError")
          /\ UNCHANGED << raw_chunk, steps >>
    /\ UNCHANGED << nframes, chunk_size, config_data, scalars, frame_batches, h5_file,
                    video_pipe, tracking_init_mean, tracking_init_cov, i, frame_range,
                    offset, results, output_movie, encoder, extract_calls,
                    committed, h5_writes, once, twice, given, to_extract, fails, attempted, printed >>

\* line 140
OffsetAlways(idx, chunk_overlap) == chunk_overlap

Offset(idx, chunk_overlap) == IF idx > 0 THEN chunk_overlap ELSE 0

\* lines 140-150: the call of extract_chunk with the current tracking state
ExtractCall ==
    /\ pc = "offset"
    /\ offset' = Offset(i, config_data.chunk_overlap)
    /\ extract_calls' = Append(extract_calls,
            [batch |-> i, mean |-> tracking_init_mean, cov |-> tracking_init_cov])
    /\ pc' = "extract"
    /\ steps' = Append(steps, <<"call", i>>)
    /\ UNCHANGED << nframes, chunk_size, config_data, scalars, frame_batches, h5_file,
                    video_pipe, tracking_init_mean, tracking_init_cov, i, frame_range,
                    raw_chunk, results, output_movie, exception, encoder,
                    committed, h5_writes, once, twice, given, to_extract, fails, attempted, printed >>

\* line 143: extract_chunk returns, or raises
ExtractReturn ==
    /\ pc = "extract"
    /\ \/ /\ results' = extract_chunk(i, raw_chunk, config_data.crop_size, scalars)
          /\ pc' = "track"
          /\ steps' = Append(steps, <<"extract", i>>)
          /\ UNCHANGED exception
       \/ /\ Raise("UnexpectedExtractionError")
          /\ UNCHANGED << results, steps >>
    /\ UNCHANGED << nframes, chunk_size, config_data, scalars, frame_batches, h5_file,
                    video_pipe, tracking_init_mean, tracking_init_cov, i, frame_range,
                    raw_chunk, offset, output_movie, encoder, extract_calls,
                    committed, h5_writes, once, twice, given, to_extract, fails, attempted, printed >>

\* line 152
UpdatesTrackingAlways(cfg) == TRUE

UpdatesTracking(cfg) == cfg.use_tracking_model

\* lines 152-154
UpdateTracking ==
    /\ pc = "track"
    /\ IF UpdatesTracking(config_data)
       THEN LET r == set_tracking_model_parameters(results, config_data.min_height,
                        config_data.tracking_model_ll_clip, config_data.chunk_overlap)
            IN  IF r.raised = "none"
                THEN /\ results' = r.results
                     /\ tracking_init_mean' = r.mean
                     /\ tracking_init_cov' = r.cov
                     /\ pc' = "slice"
                     /\ steps' = Append(steps, <<"track", i>>)
                     /\ UNCHANGED exception
                ELSE /\ results' = r.results
                     /\ Raise(r.raised)
                     /\ UNCHANGED << tracking_init_mean, tracking_init_cov, steps >>
       ELSE /\ pc' = "slice"
            /\ UNCHANGED << results, tracking_init_mean, tracking_init_cov, exception, steps >>
    /\ UNCHANGED << nframes, chunk_size, config_data, scalars, frame_batches, h5_file,
                    video_pipe, i, frame_range, raw_chunk, offset, output_movie,
                    encoder, extract_calls, committed, h5_writes, once, twice, given, to_extract, fails, attempted, printed >>

\* line 157
SliceRange ==
    /\ pc = "slice"
    /\ frame_range' = SliceFrom(frame_range, offset)
    /\ committed' = Append(committed, frame_range')
    /\ pc' = "write"
    /\ steps' = Append(steps, <<"slice", i>>)
    /\ UNCHANGED << nframes, chunk_size, config_data, scalars, frame_batches, h5_file,
                    video_pipe, tracking_init_mean, tracking_init_cov, i, raw_chunk,
                    offset, results, output_movie, exception, encoder, extract_calls,
                    h5_writes, once, twice, given, to_extract, fails, attempted, printed >>

\* lines 159-160
WriteChunk ==
    /\ pc = "write"
    /\ IF h5_file # None
       THEN \/ /\ h5_file' = write_extracted_chunk_to_h5(h5_file, results,
                                config_data.flip_classifier, scalars, frame_range, offset)
               /\ h5_writes' = CountChunkWrites(h5_writes, config_data.flip_classifier,
                                                scalars, frame_range)
               /\ pc' = "movie"
               /\ steps' = Append(steps, <<"write", i>>)
               /\ UNCHANGED exception
            \/ /\ Raise("StoreWriteError")
               /\ UNCHANGED << h5_file, h5_writes, steps >>
       ELSE /\ pc' = "movie"
            /\ UNCHANGED << h5_file, h5_writes, exception, steps >>
    /\ UNCHANGED << nframes, chunk_size, config_data, scalars, frame_batches,
                    video_pipe, tracking_init_mean, tracking_init_cov, i, frame_range,
                    raw_chunk, offset, results, output_movie, encoder, extract_calls,
                    committed, once, twice, given, to_extract, fails, attempted, printed >>

\* line 163
MakeMovie ==
    /\ pc = "movie"
    /\ output_movie' = make_output_movie(results, config_data.crop_size, offset)
    /\ pc' = "feed"
    /\ steps' = Append(steps, <<"movie", i>>)
    /\ UNCHANGED << nframes, chunk_size, config_data, scalars, frame_batches, h5_file,
                    video_pipe, tracking_init_mean, tracking_init_cov, i, frame_range,
                    raw_chunk, offset, results, exception, encoder, extract_calls,
                    committed, h5_writes, once, twice, given, to_extract, fails, attempted, printed >>

\* line 134: enumerate hands out the batches one after the other
NextBatchSkips(idx) == idx + 2

NextBatch(idx) == idx + 1

\* line 167: the pipe handed to write_frames_preview
PipeArgNone(p) == None

PipeArg(p) == p

\* lines 166-170, and the step of the loop to the next batch
FeedMovie ==
    /\ pc = "feed"
    /\ \/ LET r == write_frames_preview(encoder, PipeArg(video_pipe), output_movie, frame_range)
          IN  /\ video_pipe' = r.pipe
              /\ encoder' = r.encoder
              /\ i' = NextBatch(i)
              /\ steps' = Append(steps, <<"feed", i>>)
              /\ pc' = "for"
              /\ UNCHANGED exception
       \/ /\ Raise("BrokenPipeError")
          /\ UNCHANGED << video_pipe, encoder, i, steps >>
    /\ UNCHANGED << nframes, chunk_size, config_data, scalars, frame_batches, h5_file,
                    tracking_init_mean, tracking_init_cov, frame_range, raw_chunk,
                    offset, results, output_movie, extract_calls, committed,
                    h5_writes, once, twice, given, to_extract, fails, attempted, printed >>

\* line 173
WaitsAlways(p) == TRUE

Waits(p) == p # None

\* lines 173-174
Finalize ==
    /\ pc = "final"
    /\ IF Waits(video_pipe)
       THEN IF video_pipe = None
            THEN /\ Raise("AttributeError")
                 /\ UNCHANGED encoder
            ELSE /\ \E code \in {0, 1} : encoder' = communicate(encoder, code)
                 /\ pc' = "done"
                 /\ UNCHANGED exception
       ELSE /\ pc' = "done"
            /\ UNCHANGED << encoder, exception >>
    /\ UNCHANGED << nframes, chunk_size, config_data, scalars, frame_batches, h5_file,
                    video_pipe, tracking_init_mean, tracking_init_cov, i, frame_range,
                    raw_chunk, offset, results, output_movie, extract_calls,
                    committed, h5_writes, once, twice, given, to_extract, fails, attempted, printed, steps >>

Next ==
    \/ PopTrackingInit
    \/ ForNext
    \/ LoadChunk
    \/ ExtractCall
    \/ ExtractReturn
    \/ UpdateTracking
    \/ SliceRange
    \/ WriteChunk
    \/ MakeMovie
    \/ FeedMovie
    \/ Finalize

Spec == Init /\ [][Next]_vars

(***************************************************************************)
(* Properties of process_extract_batches.                                  *)
(***************************************************************************)
RECURSIVE Flatten(_)
Flatten(ss) == IF ss = <<>> THEN <<>> ELSE Head(ss) \o Flatten(Tail(ss))

LastCall == extract_calls[Len(extract_calls)]

\* C1: the committed ranges frame_range[offset:] of the batches, taken in
\* order, never repeat or skip a frame index (they always spell 0, 1, 2, ...),
\* and once every batch of the schedule is committed they spell exactly
\* 0 .. nframes - 1: each index exactly once.
C1_CommittedPartition ==
    LET all == Flatten(committed) IN
    /\ all = Range(0, Len(all))
    /\ pc \in {"final", "done"} =>
          /\ Len(committed) = Len(frame_batches)
          /\ all = Range(0, nframes)
          /\ \A f \in 0..(nframes - 1) :
                Cardinality({b \in DOMAIN committed : f \in Elems(committed[b])}) = 1

\* three batches that overlap by two frames have all been committed
C1_Witness ==
    /\ pc = "done"
    /\ Len(committed) >= 3
    /\ config_data.chunk_overlap = 2
    /\ Len(committed[3]) >= 1

\* C3: with use_tracking_model, the tracking state (mean, cov) that the
\* extraction call of batch k+1 receives is the entry at index -(O+1) of the
\* parameter trace of batch k (the results still held from batch k).
C3_TrackingChain ==
    (pc = "extract" /\ i > 0 /\ config_data.use_tracking_model) =>
        LET n == Len(frame_batches[i])
            O == config_data.chunk_overlap
        IN  /\ LastCall.batch = i
            /\ Len(results.parameters.mean) = n
            /\ LastCall.mean = results.parameters.mean[n - O]
            /\ LastCall.cov = results.parameters.cov[n - O]
            /\ LastCall.mean = <<"mean", i - 1, n - O>>
            /\ LastCall.cov = <<"cov", i - 1, n - O>>

\* the third batch's extraction call is in flight, with overlapping batches
C3_Witness ==
    /\ pc = "extract"
    /\ i = 2
    /\ config_data.use_tracking_model
    /\ config_data.chunk_overlap >= 1
    /\ LastCall.mean = <<"mean", 1, Len(frame_batches[2]) - config_data.chunk_overlap>>

\* C4: a run that ends by an exception after it started the encoder has
\* closed the video sink (end of input signalled, encoder waited for) before
\* the exception leaves the driver: the encoder is not left running.
C4_ClosedOnError ==
    (pc = "raised" /\ encoder.spawns >= 1) =>
        (encoder.state = "Closed" /\ encoder.closes = 1)

\* C5: a completed run that fed at least one batch started the encoder
\* exactly once, on the first feed, used that one pipe for every feed,
\* closed it exactly once, and fed nothing after the close.
C5_SpawnedOnce ==
    /\ Len(encoder.feeds) = 0 => encoder.spawns = 0
    /\ (pc = "done" /\ Len(encoder.feeds) >= 1) =>
          /\ encoder.spawns = 1
          /\ \A k \in DOMAIN encoder.feeds : encoder.feeds[k].pipe = encoder.feeds[1].pipe
          /\ encoder.closes = 1
          /\ encoder.state = "Closed"
          /\ encoder.late_feeds = 0

\* C5 as amended: the same for a run that was given no pipe; a run that was
\* given an open pipe starts no encoder, and likewise feeds every batch to
\* the given pipe and closes it exactly once after the last batch.
C5_Lifecycle ==
    /\ encoder.late_feeds = 0
    /\ encoder.closes > 0 => pc = "done"
    /\ (given.video_pipe = None /\ Len(encoder.feeds) = 0) =>
          (encoder.spawns = 0 /\ encoder.state = "Unopened")
    /\ Len(encoder.feeds) >= 1 =>
          /\ encoder.spawns = (IF given.video_pipe = None THEN 1 ELSE 0)
          /\ given.video_pipe # None => encoder.feeds[1].pipe = given.video_pipe
          /\ \A k \in DOMAIN encoder.feeds : encoder.feeds[k].pipe = encoder.feeds[1].pipe
          /\ video_pipe = encoder.feeds[1].pipe
          /\ pc = "done" => (encoder.closes = 1 /\ encoder.state = "Closed")
          /\ pc # "done" => encoder.state = "Open"

\* a run given no pipe has fed three batches and completed
C5_Witness ==
    /\ pc = "done"
    /\ given.video_pipe = None
    /\ Len(encoder.feeds) >= 3
    /\ encoder.state = "Closed"

\* C6: a run with no batch and no pipe given never starts the encoder, and
\* its finalization does nothing and raises nothing.
C6_ZeroBatches ==
    (Len(frame_batches) = 0 /\ given.video_pipe = None) =>
        /\ encoder = NoEncoder
        /\ video_pipe = None
        /\ exception = "none"
        /\ pc \in {"pop", "for", "final", "done"}

\* the run with no batch has completed
C6_Witness ==
    /\ pc = "done"
    /\ Len(frame_batches) = 0
    /\ given.video_pipe = None

\* C8: without use_tracking_model every extraction call receives None as
\* tracking state, whatever the configuration holds.
C8_AlwaysNone ==
    ~config_data.use_tracking_model =>
        \A k \in DOMAIN extract_calls :
            extract_calls[k].mean = None /\ extract_calls[k].cov = None

\* C8 as amended: without use_tracking_model every extraction call receives
\* the tracking state the configuration held at the call of
\* process_extract_batches (tracking_init_mean, tracking_init_cov), and None
\* for a key the configuration did not hold.
C8_ConfiguredState ==
    ~config_data.use_tracking_model =>
        \A k \in DOMAIN extract_calls :
            /\ extract_calls[k].mean =
                  (IF given.config_data.tracking_init_mean = Absent THEN None
                   ELSE given.config_data.tracking_init_mean)
            /\ extract_calls[k].cov =
                  (IF given.config_data.tracking_init_cov = Absent THEN None
                   ELSE given.config_data.tracking_init_cov)

\* three extraction calls were made without the tracking model, under a
\* configuration that holds no tracking state
C8_Witness ==
    /\ ~config_data.use_tracking_model
    /\ given.config_data.tracking_init_mean = Absent
    /\ Len(extract_calls) >= 3
    /\ extract_calls[3].mean = None

(***************************************************************************)
(* The `extract` command of src/moseq2/cli.py: schedule, datasets, batch   *)
(* loop.                                                                   *)
(***************************************************************************)
\* gen_batch_sequence accepts 0 <= overlap < chunk_size only
ValidSchedule(C, O) == C > 0 /\ O >= 0 /\ O < C

\* line 47
CliBatchesNoOverlap(N, C, O) == gen_batch_sequence(N, C, 0)

CliBatches(N, C, O) == gen_batch_sequence(N, C, O)

\* lines 89-92: the datasets scalars/<name> and frames
CliNewH5(n, crop_size, names) ==
    [ scalars |-> [s \in names |-> [x \in 0..(n - 1) |-> 0]],
      frames  |-> [x \in 0..(n - 1) |-> Matrix(crop_size[1], crop_size[2], 0)] ]

\* lines 107-109
CliWriteResults(h5, res, names, fr) ==
    [ scalars |-> [s \in names |-> H5Assign(h5.scalars[s], fr, res.scalars[s])],
      frames  |-> H5Assign(h5.frames, fr, res.depth_frames) ]

\* the variables the command does not have
CliUnused ==
    /\ video_pipe = None
    /\ tracking_init_mean = None
    /\ tracking_init_cov = None
    /\ offset = 0
    /\ output_movie = <<>>
    /\ encoder = NoEncoder
    /\ extract_calls = <<>>
    /\ committed = <<>>
    /\ once = <<>>
    /\ twice = <<>>
    /\ to_extract = <<>>
    /\ fails = {}
    /\ attempted = <<>>
    /\ printed = <<>>
    /\ steps = <<>>

\* the state after option parsing: any frame count, chunk size and overlap
InitCli ==
    /\ nframes \in 0..MaxFrames
    /\ chunk_size \in 1..MaxChunk
    /\ \E O \in 0..MaxChunk :
          config_data = [ chunk_overlap |-> O, crop_size |-> <<1, 1>> ]
    /\ scalars = ScalarNames
    /\ frame_batches = <<>>
    /\ h5_file = None
    /\ h5_writes = <<>>
    /\ i = 0
    /\ frame_range = <<>>
    /\ raw_chunk = <<>>
    /\ results = NoResults
    /\ pc = "schedule"
    /\ exception = "none"
    /\ given = [ config_data |-> config_data, video_pipe |-> None, results |-> NoResults ]
    /\ CliUnused

CliKeeps ==
    UNCHANGED << nframes, chunk_size, config_data, scalars, video_pipe,
                 tracking_init_mean, tracking_init_cov, offset, output_movie,
                 encoder, extract_calls, committed, once, twice, given, to_extract, fails, attempted, printed, steps >>

\* line 47
CliSchedule ==
    /\ pc = "schedule"
    /\ IF ValidSchedule(chunk_size, config_data.chunk_overlap)
       THEN /\ frame_batches' = CliBatches(nframes, chunk_size, config_data.chunk_overlap)
            /\ pc' = "create"
            /\ UNCHANGED exception
       ELSE /\ Raise("InvalidConfig")
            /\ UNCHANGED frame_batches
    /\ UNCHANGED << h5_file, h5_writes, i, frame_range, raw_chunk, results >>
    /\ CliKeeps

\* lines 87-92
CliCreateDatasets ==
    /\ pc = "create"
    /\ h5_file' = CliNewH5(nframes, config_data.crop_size, scalars)
    /\ h5_writes' = [d \in scalars \cup {"frames"} |-> [x \in 0..(nframes - 1) |-> 0]]
    /\ pc' = "for"
    /\ UNCHANGED << frame_batches, i, frame_range, raw_chunk, results, exception >>
    /\ CliKeeps

\* line 94
CliForNext ==
    /\ pc = "for"
    /\ IF i < Len(frame_batches)
       THEN /\ frame_range' = frame_batches[i + 1]
            /\ pc' = "load"
       ELSE /\ frame_range' = frame_range
            /\ pc' = "done"
    /\ UNCHANGED << frame_batches, h5_file, h5_writes, i, raw_chunk, results, exception >>
    /\ CliKeeps

\* lines 95-99
CliLoad ==
    /\ pc = "load"
    /\ \/ /\ raw_chunk' = load_movie_data(frame_range, FrameShape)
          /\ pc' = "extract"
          /\ UNCHANGED exception
       \/ /\ Raise("LoaderError")
          /\ UNCHANGED raw_chunk
    /\ UNCHANGED << frame_batches, h5_file, h5_writes, i, frame_range, results >>
    /\ CliKeeps

\* lines 101-103
CliExtract ==
    /\ pc = "extract"
    /\ \/ /\ results' = extract_chunk(i, raw_chunk, config_data.crop_size, scalars)
          /\ pc' = "write"
          /\ UNCHANGED exception
       \/ /\ Raise("UnexpectedExtractionError")
          /\ UNCHANGED results
    /\ UNCHANGED << frame_batches, h5_file, h5_writes, i, frame_range, raw_chunk >>
    /\ CliKeeps

\* lines 107-109, and the step of the loop to the next batch
CliWrite ==
    /\ pc = "write"
    /\ h5_file' = CliWriteResults(h5_file, results, scalars, frame_range)
    /\ h5_writes' = [d \in DOMAIN h5_writes |-> CountAssign(h5_writes[d], frame_range)]
    /\ i' = i + 1
    /\ pc' = "for"
    /\ UNCHANGED << frame_batches, frame_range, raw_chunk, results, exception >>
    /\ CliKeeps

NextCli ==
    \/ CliSchedule
    \/ CliCreateDatasets
    \/ CliForNext
    \/ CliLoad
    \/ CliExtract
    \/ CliWrite

SpecCli == InitCli /\ [][NextCli]_vars

\* C2: the ranges of the schedule are runs of consecutive indices whose
\* union is exactly 0 .. nframes - 1, and each range shares exactly
\* chunk_overlap indices with the range before it, except that the last
\* range may share fewer.
C2_Schedule ==
    (pc # "schedule" /\ exception # "InvalidConfig") =>
        LET O == config_data.chunk_overlap
            n == Len(frame_batches)
        IN  /\ UNION {Elems(frame_batches[k]) : k \in 1..n} = 0..(nframes - 1)
            /\ \A k \in 1..n :
                  /\ Len(frame_batches[k]) >= 1
                  /\ frame_batches[k] = Range(frame_batches[k][1],
                                              frame_batches[k][1] + Len(frame_batches[k]))
            /\ \A k \in 1..(n - 1) :
                  LET shared == Cardinality(Elems(frame_batches[k]) \cap Elems(frame_batches[k + 1]))
                  IN  /\ frame_batches[k][1] < frame_batches[k + 1][1]
                      /\ IF k + 1 < n THEN shared = O ELSE shared <= O

\* a schedule of three ranges that overlap by two
C2_Witness ==
    /\ pc = "create"
    /\ Len(frame_batches) >= 3
    /\ config_data.chunk_overlap = 2
    /\ Elems(frame_batches[2]) \cap Elems(frame_batches[3]) # {}

\* C7: over a completed run of more than one batch, each frame index of
\* each dataset scalars/<name> and frames is written by exactly one batch.
C7_WrittenOnce ==
    (pc = "done" /\ Len(frame_batches) > 1) =>
        \A d \in DOMAIN h5_writes : \A x \in DOMAIN h5_writes[d] : h5_writes[d][x] = 1

(***************************************************************************)
(* set_tracking_model_parameters applied to a result, and again to what    *)
(* it returned.                                                            *)
(***************************************************************************)
DepthVals == {4, 10, 50}
MaskVals == {-7, 3, 5, 8}
MinHeights == {10, 50}
ClipVals == {-3, 5}

\* any result of one to MaxPix frames of one pixel, any thresholds
InitClip ==
    /\ \E n \in 1..MaxPix :
       \E depth \in [1..n -> DepthVals], mask \in [1..n -> MaskVals] :
          results = [NoResults EXCEPT
                !.depth_frames = [f \in 1..n |-> Matrix(1, 1, depth[f])],
                !.mask_frames = [f \in 1..n |-> Matrix(1, 1, mask[f])],
                !.parameters = [ mean |-> [f \in 1..n |-> <<"mean", 0, f>>],
                                 cov  |-> [f \in 1..n |-> <<"cov", 0, f>>] ]]
    /\ \E h \in MinHeights, clip \in ClipVals, O \in 0..1 :
          config_data = [ chunk_overlap |-> O, min_height |-> h,
                          tracking_model_ll_clip |-> clip ]
    /\ given = [ config_data |-> config_data, video_pipe |-> None, results |-> results ]
    /\ nframes = 0
    /\ chunk_size = 1
    /\ scalars = {}
    /\ frame_batches = <<>>
    /\ h5_file = None
    /\ h5_writes = <<>>
    /\ i = 0
    /\ frame_range = <<>>
    /\ raw_chunk = <<>>
    /\ pc = "clip"
    /\ exception = "none"
    /\ CliUnused

\* the call of lines 65-73 on `results`; the masks are clipped in place, also
\* when the read of the parameter trace then raises
ClipCall(first) ==
    LET r == set_tracking_model_parameters(results, config_data.min_height,
                config_data.tracking_model_ll_clip, config_data.chunk_overlap)
    IN  /\ results' = r.results
        /\ exception' = r.raised
        /\ tracking_init_mean' = r.mean
        /\ tracking_init_cov' = r.cov
        /\ IF first
           THEN once' = r.results.mask_frames /\ UNCHANGED twice
           ELSE twice' = r.results.mask_frames /\ UNCHANGED once
        /\ UNCHANGED << nframes, chunk_size, config_data, scalars, frame_batches,
                        h5_file, video_pipe, i, frame_range, raw_chunk, offset,
                        output_movie, encoder, extract_calls, committed,
                        h5_writes, given, to_extract, fails, attempted, printed, steps >>

ClipOnce ==
    /\ pc = "clip"
    /\ pc' = "clip_again"
    /\ ClipCall(TRUE)

ClipTwice ==
    /\ pc = "clip_again"
    /\ pc' = "clipped"
    /\ ClipCall(FALSE)

NextClip ==
    \/ ClipOnce
    \/ ClipTwice

SpecClip == InitClip /\ [][NextClip]_vars

\* C9: clipping the masks a second time changes nothing.
C9_Idempotent ==
    pc = "clipped" => twice = once

\* a mask that the first clipping changed has been clipped twice
C9_Witness ==
    /\ pc = "clipped"
    /\ once # given.results.mask_frames
    /\ \E f \in DOMAIN once : once[f][1][1] > config_data.tracking_model_ll_clip

\* C10: after the clipping a pixel whose depth is below min_height holds the
\* clip value, and any other pixel holds the larger of its old value and
\* the clip value.
C10_OverrideThenFloor ==
    pc # "clip" =>
        LET depth == given.results.depth_frames
            mask  == given.results.mask_frames
            h     == config_data.min_height
            clip  == config_data.tracking_model_ll_clip
        IN  /\ DOMAIN once = DOMAIN mask
            /\ \A f \in DOMAIN mask : \A r \in DOMAIN mask[f] : \A c \in DOMAIN mask[f][r] :
                  once[f][r][c] = IF depth[f][r][c] < h THEN clip
                                  ELSE Max(mask[f][r][c], clip)

\* min_height 10, clip 5: a mask value 3 at depth 4 and one at depth 50 are
\* both 5 after the clipping
C10_Witness ==
    /\ pc # "clip"
    /\ config_data.min_height = 10
    /\ config_data.tracking_model_ll_clip = 5
    /\ \E f, g \in DOMAIN once :
          /\ given.results.depth_frames[f][1][1] = 4
          /\ given.results.mask_frames[f][1][1] = 3
          /\ once[f][1][1] = 5
          /\ given.results.depth_frames[g][1][1] = 50
          /\ given.results.mask_frames[g][1][1] = 3
          /\ once[g][1][1] = 5

\* C11: the clipping leaves every mask pixel whose value is at or above the
\* clip value unchanged, whatever the depth at that pixel.
C11_UnchangedAtFloor ==
    pc # "clip" =>
        LET mask == given.results.mask_frames IN
        \A f \in DOMAIN mask : \A r \in DOMAIN mask[f] : \A c \in DOMAIN mask[f][r] :
            mask[f][r][c] >= config_data.tracking_model_ll_clip =>
                once[f][r][c] = mask[f][r][c]

\* C11 as amended: the clipping leaves every mask pixel unchanged whose value
\* is at or above the clip value and whose depth is not below min_height; a
\* pixel whose depth is below min_height holds the clip value afterwards,
\* also when its value was above it.
C11_UnchangedAtFloorAndHeight ==
    pc # "clip" =>
        LET mask  == given.results.mask_frames
            depth == given.results.depth_frames
        IN  \A f \in DOMAIN mask : \A r \in DOMAIN mask[f] : \A c \in DOMAIN mask[f][r] :
                /\ (mask[f][r][c] >= config_data.tracking_model_ll_clip
                        /\ depth[f][r][c] >= config_data.min_height) =>
                      once[f][r][c] = mask[f][r][c]
                /\ depth[f][r][c] < config_data.min_height =>
                      once[f][r][c] = config_data.tracking_model_ll_clip

\* a pixel above the clip value at a depth of exactly min_height was kept,
\* and one above the clip value at a lower depth was set to the clip value
C11_Witness ==
    /\ pc # "clip"
    /\ \E f, g \in DOMAIN once :
          /\ given.results.mask_frames[f][1][1] > config_data.tracking_model_ll_clip
          /\ given.results.depth_frames[f][1][1] = config_data.min_height
          /\ once[f][1][1] = given.results.mask_frames[f][1][1]
          /\ given.results.mask_frames[g][1][1] > config_data.tracking_model_ll_clip
          /\ given.results.depth_frames[g][1][1] < config_data.min_height
          /\ once[g][1][1] = config_data.tracking_model_ll_clip

\* the frame_range lists handed to write_frames_preview, in feed order
FedRanges == [k \in DOMAIN encoder.feeds |-> encoder.feeds[k].frame_range]

\* C12: the frame indices fed to the video sink always continue 0, 1, 2, ...
\* without repetition or gap, each feed carries one composited frame per
\* index of its range, and over a completed run the fed indices are exactly
\* 0 .. nframes - 1.
C12_FedInOrder ==
    /\ Flatten(FedRanges) = Range(0, Len(Flatten(FedRanges)))
    /\ \A k \in DOMAIN encoder.feeds :
          /\ encoder.feeds[k].nframes = Len(encoder.feeds[k].frame_range)
          /\ encoder.feeds[k].frame_range = committed[k]
    /\ pc = "done" => Flatten(FedRanges) = Range(0, nframes)

\* a run of three overlapping batches has fed all its frames and completed
C12_Witness ==
    /\ pc = "done"
    /\ Len(encoder.feeds) >= 3
    /\ config_data.chunk_overlap >= 1
    /\ Flatten(FedRanges) = Range(0, nframes)

\* C13: when the encoder exits with a non-zero code after at least one
\* feed, the finalization reports a SinkFlushError to the caller, and the
\* store still holds what the batches wrote (every index written once).
C13_FlushErrorReported ==
    (encoder.state = "Closed" /\ Len(encoder.feeds) >= 1 /\ encoder.returncode # 0) =>
        /\ exception = "SinkFlushError"
        /\ h5_file # None =>
              \A x \in 0..(nframes - 1) : h5_writes["frames"][x] = 1

(***************************************************************************)
(* run_local_extract                                                       *)
(***************************************************************************)
Sessions == {"s1", "s2"}

\* any list of at most MaxSessions sessions, any of whose extractions raise
InitLocal ==
    /\ \E n \in 0..MaxSessions :
          /\ to_extract \in [1..n -> Sessions]
          /\ fails \in SUBSET (1..n)
    /\ attempted = <<>>
    /\ printed = <<>>
    /\ steps = <<>>
    /\ i = 0
    /\ pc = "for"
    /\ exception = "none"
    /\ nframes = 0
    /\ chunk_size = 1
    /\ config_data = [ config_file |-> "config.yaml", skip |-> FALSE ]
    /\ given = [ config_data |-> config_data, video_pipe |-> None, results |-> NoResults ]
    /\ scalars = {}
    /\ frame_batches = <<>>
    /\ h5_file = None
    /\ h5_writes = <<>>
    /\ frame_range = <<>>
    /\ raw_chunk = <<>>
    /\ results = NoResults
    /\ video_pipe = None
    /\ tracking_init_mean = None
    /\ tracking_init_cov = None
    /\ offset = 0
    /\ output_movie = <<>>
    /\ encoder = NoEncoder
    /\ extract_calls = <<>>
    /\ committed = <<>>
    /\ once = <<>>
    /\ twice = <<>>

LocalKeeps ==
    UNCHANGED << nframes, chunk_size, config_data, scalars, frame_batches, h5_file,
                 video_pipe, tracking_init_mean, tracking_init_cov, frame_range,
                 raw_chunk, offset, results, output_movie, encoder, extract_calls,
                 committed, h5_writes, once, twice, given, to_extract, fails, steps >>

\* line 196: `except Exception` catches the error of a session
CatchesNothing(e) == FALSE

Catches(e) == e = "Exception"

\* line 193: the next session, or the return of the function
LocalForNext ==
    /\ pc = "for"
    /\ IF i < Len(to_extract)
       THEN /\ i' = i + 1
            /\ pc' = "try"
       ELSE /\ i' = i
            /\ pc' = "returned"
    /\ UNCHANGED << attempted, printed, exception >>
    /\ LocalKeeps

\* lines 194-196: extract_command for the session; its error is caught
LocalExtract ==
    /\ pc = "try"
    /\ attempted' = Append(attempted, to_extract[i])
    /\ IF i \in fails
       THEN IF Catches("Exception")
            THEN pc' = "except" /\ UNCHANGED exception
            ELSE Raise("Exception")
       ELSE pc' = "for" /\ UNCHANGED exception
    /\ UNCHANGED << i, printed >>
    /\ LocalKeeps

\* lines 197-198
LocalReport ==
    /\ pc = "except"
    /\ printed' = printed \o << <<"Unexpected error:", i>>, <<"could not extract", to_extract[i]>> >>
    /\ pc' = "for"
    /\ UNCHANGED << i, attempted, exception >>
    /\ LocalKeeps

NextLocal ==
    \/ LocalForNext
    \/ LocalExtract
    \/ LocalReport

SpecLocal == InitLocal /\ [][NextLocal]_vars

\* the report lines of the failed sessions among the first n, in order
RECURSIVE Reports(_)
Reports(n) ==
    IF n = 0 THEN <<>>
    ELSE Reports(n - 1) \o
         (IF n \in fails
          THEN << <<"Unexpected error:", n>>, <<"could not extract", to_extract[n]>> >>
          ELSE <<>>)

\* C14: run_local_extract attempts the sessions in list order, each once;
\* the failure of a session is printed and the next sessions are still
\* attempted; no error leaves the function, and when it returns every
\* session was attempted exactly once and every failed one was reported.
C14_AllAttempted ==
    /\ exception = "none"
    /\ pc # "raised"
    /\ attempted = SubSeq(to_extract, 1, IF pc = "try" THEN i - 1 ELSE i)
    /\ printed = Reports(IF pc \in {"try", "except"} THEN i - 1 ELSE i)
    /\ pc = "returned" =>
          /\ attempted = to_extract
          /\ printed = Reports(Len(to_extract))

\* the function returned from a list of three sessions whose first failed
C14_Witness ==
    /\ pc = "returned"
    /\ Len(to_extract) >= 3
    /\ 1 \in fails
    /\ 3 \notin fails
    /\ attempted = to_extract
    /\ Len(printed) >= 2

\* C15: when loading the frames of batch k fails the run ends there: no
\* index of the range batch k would commit is written to any dataset or fed
\* to the video sink, batch k is not extracted and no later batch is
\* started, and every index committed by the earlier batches still holds
\* what its batch wrote, written once.
C15_NoPartialCommit ==
    exception = "LoaderError" =>
        LET O     == config_data.chunk_overlap
            R     == frame_batches[i + 1]
            would == SliceFrom(R, IF i > 0 THEN O ELSE 0)
        IN  /\ pc = "raised"
            /\ \A x \in Elems(would) :
                  /\ \A d \in DOMAIN h5_writes : h5_writes[d][x] = 0
                  /\ x \notin Elems(Flatten(FedRanges))
            /\ Len(extract_calls) = i
            /\ Len(committed) = i
            /\ Len(encoder.feeds) = i
            /\ \A b \in 1..i : \A j \in DOMAIN committed[b] :
                  LET x   == committed[b][j]
                      pos == j + (IF b > 1 THEN O ELSE 0)
                  IN  /\ x \in Elems(Flatten(FedRanges))
                      /\ h5_file # None =>
                            /\ h5_writes["frames"][x] = 1
                            /\ h5_file.frames[x] = Matrix(1, 1, Tag(b - 1, pos))
                            /\ \A sc \in scalars :
                                  /\ h5_writes[sc][x] = 1
                                  /\ h5_file.scalars[sc][x] = 100 + Tag(b - 1, pos)

\* the load of the third batch failed after two overlapping batches were
\* written to the store
C15_Witness ==
    /\ exception = "LoaderError"
    /\ pc = "raised"
    /\ i = 2
    /\ config_data.chunk_overlap >= 1
    /\ h5_file # None
    /\ h5_writes["frames"][0] = 1

(***************************************************************************)
(* make_output_movie applied to a result.                                  *)
(***************************************************************************)
\* any chunk of one to MaxPix frames of any shape up to MaxDim x MaxDim, any
\* crop size up to MaxDim x MaxDim, any offset up to the length of the chunk;
\* every pixel of the chunk and of the crops is non-zero and tells its place
InitMovie ==
    /\ \E n \in 1..MaxPix, rows \in 1..MaxDim, cols \in 1..MaxDim,
          crop_rows \in 1..MaxDim, crop_cols \in 1..MaxDim, seed \in {0, 1} :
          /\ results = [NoResults EXCEPT
                !.chunk = [j \in 1..n |-> [r \in 1..rows |-> [c \in 1..cols |->
                                (MaxDim + 1) * (MaxDim + 1) * j + (MaxDim + 1) * r + c + seed]]],
                !.depth_frames = [j \in 1..n |-> [r \in 1..crop_rows |-> [c \in 1..crop_cols |->
                                200 - ((MaxDim + 1) * (MaxDim + 1) * j + (MaxDim + 1) * r + c) - seed]]]]
          /\ config_data = [ crop_size |-> <<crop_rows, crop_cols>> ]
          /\ offset \in 0..n
    /\ given = [ config_data |-> config_data, video_pipe |-> None, results |-> results ]
    /\ output_movie = <<>>
    /\ pc = "compose"
    /\ exception = "none"
    /\ nframes = 0
    /\ chunk_size = 1
    /\ scalars = {}
    /\ frame_batches = <<>>
    /\ h5_file = None
    /\ h5_writes = <<>>
    /\ i = 0
    /\ frame_range = <<>>
    /\ raw_chunk = <<>>
    /\ video_pipe = None
    /\ tracking_init_mean = None
    /\ tracking_init_cov = None
    /\ encoder = NoEncoder
    /\ extract_calls = <<>>
    /\ committed = <<>>
    /\ once = <<>>
    /\ twice = <<>>
    /\ to_extract = <<>>
    /\ fails = {}
    /\ attempted = <<>>
    /\ printed = <<>>
    /\ steps = <<>>

\* lines 91-99
MovieCompose ==
    /\ pc = "compose"
    /\ output_movie' = make_output_movie(results, config_data.crop_size, offset)
    /\ pc' = "composed"
    /\ UNCHANGED << nframes, chunk_size, config_data, scalars, frame_batches, h5_file,
                    video_pipe, tracking_init_mean, tracking_init_cov, i, frame_range,
                    raw_chunk, offset, results, exception, encoder, extract_calls,
                    committed, h5_writes, once, twice, given, to_extract, fails,
                    attempted, printed, steps >>

NextMovie ==
    \/ MovieCompose

SpecMovie == InitMovie /\ [][NextMovie]_vars

\* C16: make_output_movie returns one frame per frame of the chunk from
\* offset on, each of rows + crop_rows by cols + crop_cols pixels, with the
\* crop of that frame in the top-left crop_rows x crop_cols block, the chunk
\* frame in the bottom-right rows x cols block, and zero everywhere else.
C16_Layout ==
    pc = "composed" =>
        LET cr   == config_data.crop_size[1]
            cc   == config_data.crop_size[2]
            rows == Len(results.chunk[1])
            cols == Len(results.chunk[1][1])
        IN  /\ Len(output_movie) = Len(results.chunk) - offset
            /\ \A j \in DOMAIN output_movie :
                  /\ DOMAIN output_movie[j] = 1..(rows + cr)
                  /\ \A r \in 1..(rows + cr) :
                        /\ DOMAIN output_movie[j][r] = 1..(cols + cc)
                        /\ \A c \in 1..(cols + cc) :
                              output_movie[j][r][c] =
                                 IF r <= cr /\ c <= cc
                                 THEN results.depth_frames[offset + j][r][c]
                                 ELSE IF r > cr /\ c > cc
                                 THEN results.chunk[offset + j][r - cr][c - cc]
                                 ELSE 0

\* a movie of one frame was composited from the second frame of a chunk of
\* two, with a crop that is neither the shape of the frame nor square
C16_Witness ==
    /\ pc = "composed"
    /\ offset = 1
    /\ Len(results.chunk) = 2
    /\ Len(output_movie) = 1
    /\ config_data.crop_size = <<1, 2>>
    /\ Len(results.chunk[1]) = 2
    /\ output_movie[1][1][1] = results.depth_frames[2][1][1]
    /\ output_movie[1][1][3] = 0

\* the steps of batch b of a run that does not raise
BatchSteps(b) ==
    << <<"load", b>>, <<"call", b>>, <<"extract", b>> >>
    \o (IF config_data.use_tracking_model THEN << <<"track", b>> >> ELSE <<>>)
    \o << <<"slice", b>> >>
    \o (IF h5_file # None THEN << <<"write", b>> >> ELSE <<>>)
    \o << <<"movie", b>>, <<"feed", b>> >>

\* the steps of every batch of the schedule, batch after batch
AllSteps == Flatten([b \in 1..Len(frame_batches) |-> BatchSteps(b - 1)])

\* C17: the batches run strictly one after the other: the steps taken so far
\* are a beginning of "load, extract, state update, store write,
\* compositing, feed of batch 0, then the same of batch 1, ...", so that the
\* extraction call of batch k+1 starts after every step of batch k returned
\* and at most one extraction call is in flight.
C17_Sequential ==
    /\ Len(steps) <= Len(AllSteps)
    /\ \A p \in DOMAIN steps : steps[p] = AllSteps[p]
    /\ Cardinality({p \in DOMAIN steps : steps[p][1] = "call"})
         - Cardinality({p \in DOMAIN steps : steps[p][1] = "extract"}) \in {0, 1}
    /\ pc = "extract" =>
          /\ steps[Len(steps)] = <<"call", i>>
          /\ Len(encoder.feeds) = i
          /\ Len(extract_calls) = i + 1

\* the extraction call of the third batch is in flight, after the first two
\* batches updated the tracking state, wrote to the store and fed the pipe
C17_Witness ==
    /\ pc = "extract"
    /\ i = 2
    /\ config_data.use_tracking_model
    /\ h5_file # None
    /\ Len(steps) = 2 * Len(BatchSteps(0)) + 2

\* C18: once batch i is written, every dataset holds at the frame index R[j]
\* of the batch's range R the element at position j of the batch's results,
\* for every position j from the offset on (flips only with
\* flip_classifier); the elements at the positions before the offset are in
\* no dataset and in no composited frame, and the indices they belong to
\* keep the one write of the batch before.
C18_IndexAligned ==
    /\ pc \in {"write", "movie", "feed"} =>
          offset = (IF i > 0 THEN config_data.chunk_overlap ELSE 0)
    /\ (pc \in {"movie", "feed"} /\ h5_file # None) =>
          LET R == frame_batches[i + 1] IN
          /\ \A j \in (offset + 1)..Len(R) :
                /\ h5_file.frames[R[j]] = results.depth_frames[j]
                /\ h5_file.frames_mask[R[j]] = results.mask_frames[j]
                /\ \A sc \in scalars : h5_file.scalars[sc][R[j]] = results.scalars[sc][j]
                /\ IF config_data.flip_classifier
                   THEN h5_file.flips[R[j]] = results.flips[j] /\ h5_writes["flips"][R[j]] = 1
                   ELSE h5_writes["flips"][R[j]] = 0
                /\ \A d \in scalars \cup {"frames", "frames_mask"} : h5_writes[d][R[j]] = 1
          /\ \A j \in 1..Min(offset, Len(R)) :
                /\ \A x \in 0..(nframes - 1) :
                      /\ h5_file.frames[x] # results.depth_frames[j]
                      /\ \A sc \in scalars : h5_file.scalars[sc][x] # results.scalars[sc][j]
                /\ \A d \in scalars \cup {"frames", "frames_mask"} : h5_writes[d][R[j]] = 1
    /\ pc = "feed" =>
          LET n == Len(frame_batches[i + 1]) IN
          /\ Len(output_movie) = n - offset
          /\ \A k \in DOMAIN output_movie :
                /\ output_movie[k][1][1] = results.depth_frames[offset + k][1][1]
                /\ output_movie[k][2][2] = results.chunk[offset + k][1][1]
                /\ \A j \in 1..Min(offset, n) :
                      /\ output_movie[k][1][1] # results.depth_frames[j][1][1]
                      /\ output_movie[k][2][2] # results.chunk[j][1][1]

\* the second or a later batch, with a non-empty overlap, has been written
\* to the store (flips included) and composited
C18_Witness ==
    /\ pc = "feed"
    /\ i >= 1
    /\ offset >= 1
    /\ h5_file # None
    /\ config_data.flip_classifier
    /\ config_data.use_tracking_model
    /\ Len(output_movie) >= 1

\* C19: with use_tracking_model, the trace entry that seeds a batch after
\* the first is the entry of the batch before it for the frame whose
\* absolute index is one less than the first frame index of the seeded
\* batch's range; the same holds of the state held between the update and
\* the next extraction call.
C19_SeedFrame ==
    /\ (pc = "extract" /\ i > 0 /\ config_data.use_tracking_model) =>
          LET p == LastCall.mean[3] IN
          /\ LastCall.mean[2] = i - 1
          /\ LastCall.cov = <<"cov", i - 1, p>>
          /\ p \in DOMAIN frame_batches[i]
          /\ frame_batches[i][p] = frame_batches[i + 1][1] - 1
    /\ (pc \in {"slice", "write", "movie", "feed"} /\ config_data.use_tracking_model
            /\ i + 2 <= Len(frame_batches)) =>
          LET p == tracking_init_mean[3] IN
          /\ tracking_init_mean[2] = i
          /\ tracking_init_cov = <<"cov", i, p>>
          /\ p \in DOMAIN frame_batches[i + 1]
          /\ frame_batches[i + 1][p] = frame_batches[i + 2][1] - 1

\* the second batch is being extracted from the state of the first one, the
\* batches overlapping by two frames
C19_Witness ==
    /\ pc = "extract"
    /\ i = 1
    /\ config_data.use_tracking_model
    /\ config_data.chunk_overlap = 2
    /\ LastCall.mean = <<"mean", 0, 1>>
    /\ frame_batches[2][1] = 1

\* C20: every batch the run has taken through the tracking update has at
\* least chunk_overlap + 1 frames, the read of the parameter trace at index
\* -(chunk_overlap + 1) never raises IndexError, and every batch after the
\* first commits at least one frame.
C20_EveryBatchLong ==
    /\ exception # "IndexError"
    /\ pc \in {"slice", "write", "movie", "feed"} =>
          Len(frame_batches[i + 1]) >= config_data.chunk_overlap + 1
    /\ \A b \in 2..Len(committed) : Len(committed[b]) >= 1

====
